---- MODULE Spec2Model ----
(***************************************************************************)
(* Model of src/app.py: the Flask service that turns YouTube videos into   *)
(* Instagram scripts and appends them to a Google Sheet.                   *)
(*                                                                         *)
(* Every POST /generate request is one thread of the threaded Flask server *)
(* (app.run, line 694).  The threads share the module attribute            *)
(* requests.get, which get_transcript_with_retry monkey-patches, and the   *)
(* destination spreadsheet.  External services (YouTube, Groq, the news    *)
(* sites, Google Sheets) are the environment: each call to one of them     *)
(* draws its outcome from a set of outcomes given by the environment       *)
(* record E of the specification.                                          *)
(*                                                                         *)
(* Texts are modelled by what the code reads of them:                      *)
(*   - a transcript is the sequence of its '.', '!', '?' separated         *)
(*     segments, each a record [id, len, kw]: which string it is, its      *)
(*     stripped length, and how many of the keywords occur in it;          *)
(*     the empty string is the empty sequence;                             *)
(*   - an LLM reply is a sequence of tokens: SCRIPT <n> markers, TITLE:,   *)
(*     THEME: and WORD COUNT: lines, rule glyphs and words.                *)
(***************************************************************************)
EXTENDS Integers, Sequences, FiniteSets, TLC

\* ---------------------------------------------------------------- bounds
MaxUrls == 2          \* longest video_urls list a request carries
MaxFetchFails == 2    \* SpecConc: failed transcript fetches per request
MaxTokens == 3        \* SpecParse: longest LLM reply, in tokens
MaxSentences == 3     \* SpecSummary: longest enumerated transcript, in sentences

\* ------------------------------------------------------ program constants
VideoCap == 5         \* video_urls[:5]
MinScripts == 1       \* num_scripts < 1
MaxScripts == 5       \* num_scripts > 5
DefaultScripts == 2   \* data.get('num_scripts', 2)
max_retries == 3      \* get_transcript_with_retry(video_id, max_retries=3)
MinSentenceLen == 30  \* len(s.strip()) > 30
SentenceWindow == 60  \* sentences[:60]
SummarySentences == 8 \* get_summary(transcript, max_sentences=8)

Requests == {1, 2}                      \* request threads
Langs == <<"hi", "en">>                 \* for lang in ['hi', 'en']
NEWS_SOURCES == <<"Lokmat Maharashtra", "TV9 Marathi", "ABP Majha">>

Min(a, b) == IF a < b THEN a ELSE b

\* ------------------------------------------------------------ get_summary
\* sentences = [s.strip() for s in ...split('.') if len(s.strip()) > 30]
Sentences(text) == SelectSeq(text, LAMBDA s : s.len > MinSentenceLen)

Take(s, n) == SubSeq(s, 1, Min(n, Len(s)))

\* a sort key that leaves the keyword score out
KeyLessByLength(a, b) == a.len < b.len

\* sort key (score, len(sentence)), compared as Python compares tuples
KeyLess(a, b) == a.kw < b.kw \/ (a.kw = b.kw /\ a.len < b.len)

\* sorted(..., reverse=True) is stable: an element comes after those with a
\* greater key and after those with an equal key that precede it in the input
RankIn(s, i) ==
    1 + Cardinality({j \in 1..Len(s) :
                        \/ KeyLess(s[i], s[j])
                        \/ (~KeyLess(s[j], s[i]) /\ j < i)})

SortedDesc(s) ==
    [p \in 1..Len(s) |-> s[CHOOSE i \in 1..Len(s) : RankIn(s, i) = p]]

InSeq(x, s) == \E i \in 1..Len(s) : s[i] = x

\* for s, score in sorted(...): if s not in seen and len(top) < max_sentences
RECURSIVE TopOf(_, _, _)
TopOf(ranked, top, max_sentences) ==
    IF ranked = <<>> THEN top
    ELSE IF ~InSeq(Head(ranked), top) /\ Len(top) < max_sentences
         THEN TopOf(Tail(ranked), Append(top, Head(ranked)), max_sentences)
         ELSE TopOf(Tail(ranked), top, max_sentences)

get_summary(text, max_sentences) ==
    TopOf(SortedDesc(Take(Sentences(text), SentenceWindow)), <<>>, max_sentences)

\* sample sentences: a long one with keywords, a long one without, a short one
SentKw == [id |-> "s1", len |-> 48, kw |-> 2]
SentPlain == [id |-> "s2", len |-> 35, kw |-> 0]
SentShort == [id |-> "s3", len |-> 12, kw |-> 1]

\* transcripts ytt_api.fetch can deliver: '' (no caption entries), one whose
\* every sentence is at most 30 characters long, and ordinary ones
TextEmpty == <<>>
TextShort == <<SentShort>>
TextLong == <<SentPlain, SentShort, SentKw>>

\* len('\n'.join(lines)): the characters of the lines and the newlines between
RECURSIVE JoinLen(_)
JoinLen(lines) ==
    IF lines = <<>> THEN 0
    ELSE Head(lines).len + (IF Len(lines) > 1 THEN 1 ELSE 0) + JoinLen(Tail(lines))

\* len(completion.choices[0].message.content.strip()) of a summary the LLM wrote
AiSummaryLen == 200

\* ---------------------------------------------------------- parse_scripts
Marker(k) == [t |-> "script", n |-> k, v |-> ""]     \* 'SCRIPT <k>'
MarkerLower(k) == [t |-> "script", n |-> k, v |-> "lower"]   \* 'script <k>'
TitleLine(x) == [t |-> "title", n |-> 0, v |-> x]    \* 'TITLE: x\n'
ThemeLine(x) == [t |-> "theme", n |-> 0, v |-> x]    \* 'THEME: x\n'
WordCountLine == [t |-> "wc", n |-> 0, v |-> ""]     \* 'WORD COUNT: ...\n'
Rule == [t |-> "rule", n |-> 0, v |-> ""]            \* a run of the rule glyph
Word(x) == [t |-> "word", n |-> 0, v |-> x]

\* re.split(r'SCRIPT\s+(\d+)', raw_text): the text before the first marker,
\* then for every marker its captured number and the text up to the next one
\* the split without re.IGNORECASE: 'script <k>' is ordinary text
RECURSIVE SplitFromExact(_, _, _)
SplitFromExact(raw, cur, acc) ==
    IF raw = <<>> THEN Append(acc, cur)
    ELSE IF Head(raw).t = "script" /\ Head(raw).v = ""
         THEN SplitFromExact(Tail(raw), <<>>, acc \o <<cur, <<Head(raw)>>>>)
         ELSE SplitFromExact(Tail(raw), Append(cur, Head(raw)), acc)

RECURSIVE SplitFrom(_, _, _)
SplitFrom(raw, cur, acc) ==
    IF raw = <<>> THEN Append(acc, cur)
    ELSE IF Head(raw).t = "script"
         THEN SplitFrom(Tail(raw), <<>>, acc \o <<cur, <<Head(raw)>>>>)
         ELSE SplitFrom(Tail(raw), Append(cur, Head(raw)), acc)

re_split(raw_text) == SplitFrom(raw_text, <<>>, <<>>)

\* re.search(label + r'\s*(.+?)...', content): the first such line, if any
FirstOf(content, kind) ==
    LET hits == SelectSeq(content, LAMBDA tok : tok.t = kind)
    IN  IF hits = <<>> THEN "" ELSE Head(hits).v

ScriptRecord(script_num, content) ==
    LET clean == SelectSeq(content, LAMBDA tok : tok.t = "word")
    IN  [number |-> script_num,
         title |-> IF FirstOf(content, "title") = ""
                   THEN [s |-> "Breaking News", n |-> script_num]
                   ELSE [s |-> FirstOf(content, "title"), n |-> 0],
         theme |-> IF FirstOf(content, "theme") = ""
                   THEN "General Updates" ELSE FirstOf(content, "theme"),
         content |-> [i \in 1..Len(clean) |-> clean[i].v],
         word_count |-> Len(clean)]

\* for i in range(1, len(parts), 2): if i+1 < len(parts): ...  (0-based i)
RECURSIVE ScriptsFrom(_, _)
ScriptsFrom(parts, i) ==
    IF i + 1 > Len(parts) THEN <<>>
    ELSE (IF i + 2 <= Len(parts)
          THEN <<ScriptRecord(parts[i + 1][1].n, parts[i + 2])>>
          ELSE <<>>) \o ScriptsFrom(parts, i + 2)

\* a parser that makes one record of a text without any marker
parse_scripts_whole(raw_text, num_scripts) ==
    IF Len(re_split(raw_text)) = 1
    THEN Take(<<ScriptRecord(1, raw_text)>>, num_scripts)
    ELSE Take(ScriptsFrom(re_split(raw_text), 1), num_scripts)

\* lines 412-442
parse_scripts(raw_text, num_scripts) ==
    Take(ScriptsFrom(re_split(raw_text), 1), num_scripts)

\* replies of the script-generation model
ReplyTwo ==
    <<Rule, Marker(1), TitleLine("t1"), ThemeLine("th1"), WordCountLine, Rule,
      Word("a"), Word("b"), Rule,
      Marker(2), TitleLine("t2"), ThemeLine("th2"), WordCountLine, Rule, Word("c")>>
ReplyBare == <<Word("intro"), Marker(3), Word("d")>>
ReplyNone == <<Word("sorry")>>
\* f"Error: {str(e)}": the text of a Groq client error
ErrorText == <<Word("Error:"), Word("e")>>

\* ------------------------------------------------------------------ state
VARIABLES
    GROQ_API_KEY,        \* line 18: whether the key is set
    GOOGLE_CREDS_JSON,   \* line 19: whether the credentials are set
    WEBSHARE_PROXY,      \* line 53: "none", "ok" (user:pw@host) or "noat" (no '@')
    requests_get,        \* the function the attribute requests.get is bound to
    drive,               \* the spreadsheets named GOOGLE_SHEET_NAME, in Drive
    local,               \* per request: the locals of generate_scripts and callees
    hist                 \* per request: what it has done so far (history)

vars == <<GROQ_API_KEY, GOOGLE_CREDS_JSON, WEBSHARE_PROXY, requests_get, drive,
          local, hist>>
config == <<GROQ_API_KEY, GOOGLE_CREDS_JSON, WEBSHARE_PROXY>>

\* A function requests.get can be bound to is the chain of proxied_get closures
\* wrapped around the library's own get: <<>> is the original, and the closure
\* <<r, n>> is the proxied_get that request r defined in attempt n (counted
\* over the videos of the request).
OriginalGet == <<>>
Unbound == <<<<0, 0>>>>                  \* a local name not assigned yet
proxied_get(r, n, original_get) == <<<<r, n>>>> \o original_get

\* ------------------------------------------------------------ request data
NoBody == [json |-> FALSE, urls |-> [type |-> "list", items |-> <<>>],
           has_num |-> FALSE, num |-> 0]

\* an element of video_urls: a URL with an 11-character id after v= or /,
\* a string without one, or a JSON value that is no string (a number, null)
UrlKind == {"ok", "noid", "nonstr"}

RECURSIVE SeqsUpTo(_, _)
SeqsUpTo(S, n) ==
    IF n = 0 THEN {<<>>}
    ELSE LET shorter == SeqsUpTo(S, n - 1)
         IN  shorter \cup {Append(q, x) : q \in shorter, x \in S}

\* video_urls: a list, a non-empty string, or a non-zero number
UrlValues ==
    {[type |-> "list", items |-> q] : q \in SeqsUpTo(UrlKind, MaxUrls)}
    \cup {[type |-> "str", items |-> <<>>], [type |-> "int", items |-> <<>>]}

NumValues == {MinScripts - 1, MinScripts, MaxScripts, MaxScripts + 1}

Bodies ==
    {NoBody}
    \cup {[json |-> TRUE, urls |-> u, has_num |-> TRUE, num |-> n] :
            u \in UrlValues, n \in NumValues}
    \cup {[json |-> TRUE, urls |-> [type |-> "list", items |-> <<"ok">>],
            has_num |-> FALSE, num |-> 0]}

\* re.search(r'(?:v=|\/)([a-zA-Z0-9_-]{11})', url): the id, None, or a TypeError
extract_video_id(url) ==
    CASE url = "ok" -> "id"
      [] url = "noid" -> "None"
      [] OTHER -> "TypeError"

Fail == [ok |-> FALSE, text |-> <<>>]
Ok(text) == [ok |-> TRUE, text |-> text]

\* verification replies, by the score re.search(r'CREDIBILITY[:\s]*(\d+)%') finds
VerUnavailable == [s |-> "Verification unavailable", pct |-> -1]
VerScored == [s |-> "reply", pct |-> 80]
VerUnscored == [s |-> "reply", pct |-> -1]

\* lines 644-645
CredibilityOf(verification) == IF verification.pct < 0 THEN "N/A" ELSE "80%"

\* what the external services may answer
FullEnv ==
    [bodies |-> Bodies,
     fetch |-> {Fail, Ok(TextEmpty), Ok(TextShort), Ok(TextLong)},
     summary |-> {"ok", "fail"},
     scrape |-> {"ok", "fail"},
     verify |-> {"fail", "scored", "unscored"},
     scripts |-> {Fail, Ok(ReplyTwo), Ok(ReplyBare)},
     max_fetch_fails |-> -1,
     api_fails |-> BOOLEAN]

\* the frame of a request that has not arrived yet
IdleFrame ==
    [pc |-> "idle", data |-> NoBody, num_scripts |-> 0, idx |-> 0,
     all_summaries |-> <<>>, processed_count |-> 0,
     attempt |-> 0, lang |-> 1, original_get |-> Unbound, transcript |-> <<>>,
     all_headlines |-> <<>>, src |-> 1,
     verification |-> VerUnscored, credibility |-> "", raw_scripts |-> <<>>,
     parsed |-> <<>>, spreadsheet |-> 0, next_row |-> 0,
     status |-> 0, message |-> ""]

NoHistory ==
    [calls |-> {},          \* the external services called
     get_before |-> <<>>,    \* requests.get when the transcript call in progress began
     kept |-> "none",        \* "same" / "changed": requests.get when the last
                             \* transcript call ended, against when it began
     scrape_owner |-> 0,     \* whose proxied_get the last headline scrape called
                             \* (0: the original requests.get)
     fetch_fails |-> 0,      \* failed fetches, counted where E bounds them
     failed |-> {},          \* the steps whose external call failed
     scrape_failed |-> {},   \* the news sources (by position) whose scrape failed
     writes |-> 0]           \* worksheet.update calls that wrote script rows

HeaderRow == [req |-> 0, k |-> 0]
ScriptRow(r, i) == [req |-> r, k |-> i]
NoSpreadsheet == <<>>
EmptySpreadsheet == <<[ws |-> FALSE, rows |-> <<>>]>>
ReadySpreadsheet == <<[ws |-> TRUE, rows |-> <<HeaderRow>>]>>

Init ==
    /\ GROQ_API_KEY \in BOOLEAN
    /\ GOOGLE_CREDS_JSON \in BOOLEAN
    /\ WEBSHARE_PROXY \in {"none", "ok", "noat"}
    /\ requests_get = OriginalGet
    /\ drive \in {NoSpreadsheet, EmptySpreadsheet, ReadySpreadsheet}
    /\ local = [r \in Requests |-> IdleFrame]
    /\ hist = [r \in Requests |-> NoHistory]

\* return jsonify(...), status
Reply(f, st, msg) == [f EXCEPT !.pc = "done", !.status = st, !.message = msg]

Did(h, call) == [h EXCEPT !.calls = @ \cup {call}]

\* ------------------------------------------------- generate_scripts: entry
\* data.get('num_scripts', 2)
NumScriptsOf(body) == IF body.has_num THEN body.num ELSE DefaultScripts

\* the upper bound of line 592 off by one: num_scripts > 6
OutOfRangeLax(num_scripts) == num_scripts < MinScripts \/ num_scripts > MaxScripts + 1

\* line 592
OutOfRange(num_scripts) == num_scripts < MinScripts \/ num_scripts > MaxScripts

\* lines 557-596: the status and message of the first check that fails, and
\* status 0 when the request passes them all.  len() of a number raises a
\* TypeError, which the handler of line 684 turns into a 500.
Validation(groq, google, body) ==
    CASE ~groq -> [status |-> 500, message |-> "GROQ_API_KEY not configured"]
      [] ~google -> [status |-> 500, message |-> "GOOGLE_CREDS_JSON not configured"]
      [] ~body.json -> [status |-> 400, message |-> "No JSON data provided"]
      [] body.urls.type = "list" /\ body.urls.items = <<>> ->
            [status |-> 400, message |-> "Please provide at least 1 video URL"]
      [] body.urls.type = "int" -> [status |-> 500, message |-> "TypeError"]
      [] body.urls.type # "list" ->
            [status |-> 400, message |-> "video_urls must be a list"]
      [] OutOfRange(NumScriptsOf(body)) ->
            [status |-> 400, message |-> "num_scripts must be between 1 and 5"]
      [] OTHER -> [status |-> 0, message |-> ""]

\* lines 553-601: a request arrives and is validated
generate_scripts(r, E) ==
    /\ local[r].pc = "idle"
    /\ \E body \in E.bodies :
         LET v == Validation(GROQ_API_KEY, GOOGLE_CREDS_JSON, body)
             f == [local[r] EXCEPT !.data = body]
         IN  local' = [local EXCEPT ![r] =
                 IF v.status # 0 THEN Reply(f, v.status, v.message)
                 ELSE [f EXCEPT !.pc = "loop", !.num_scripts = NumScriptsOf(body)]]
    /\ UNCHANGED <<config, requests_get, drive, hist>>

\* video_urls[:5]
Capped(video_urls) == Take(video_urls, VideoCap)

\* continue (lines 607, 615, 625) and the end of the loop body (line 621):
\* back to the loop head.  The names of the loop body and of the frame of
\* get_transcript_with_retry are rebound before they are read again, so the
\* model clears them here.
Continue(f) ==
    [f EXCEPT !.pc = "loop", !.attempt = 0, !.lang = 1, !.original_get = Unbound,
              !.transcript = <<>>]

\* what the loop does with a URL that has no id (line 607)
AfterInvalidUrl(f) == Continue(f)

\* the number of the attempt a request is in, counted over its videos
AttemptNo(f) == (f.idx - 1) * max_retries + f.attempt + 1

\* lines 627-631 left out: the pipeline goes on with no summary
AfterLoopUnchecked(f) == [f EXCEPT !.pc = "scrape", !.src = 1]

\* lines 627-633: after the loop
AfterLoop(f) ==
    IF f.processed_count = 0
    THEN Reply(f, 400, "No videos could be processed")
    ELSE [f EXCEPT !.pc = "scrape", !.src = 1]

\* lines 603-610 and 627-633: the next URL of the loop, or the loop's end
next_video(r) ==
    /\ local[r].pc = "loop"
    /\ LET f == local[r]
           urls == Capped(f.data.urls.items)
       IN  IF f.idx >= Len(urls)
           THEN /\ local' = [local EXCEPT ![r] = AfterLoop(f)]
                /\ UNCHANGED hist
           ELSE LET url == urls[f.idx + 1]
                    g == [f EXCEPT !.idx = @ + 1]
                IN  /\ local' = [local EXCEPT ![r] =
                          CASE extract_video_id(url) = "TypeError" ->
                                   Reply(g, 500, "TypeError")
                            [] extract_video_id(url) = "None" -> AfterInvalidUrl(g)
                            [] OTHER -> [g EXCEPT !.pc = "attempt", !.attempt = 0,
                                                  !.original_get = Unbound]]
                    /\ hist' = [hist EXCEPT ![r].get_before = requests_get]
    /\ UNCHANGED <<config, requests_get, drive>>

\* ----------------------------------------------- get_transcript_with_retry
\* lines 55-76: an attempt begins; with a proxy it reads requests.get
transcript_attempt(r) ==
    /\ local[r].pc = "attempt"
    /\ local' = [local EXCEPT ![r] =
          CASE WEBSHARE_PROXY = "none" -> [@ EXCEPT !.pc = "fetch", !.lang = 1]
            [] WEBSHARE_PROXY = "noat" -> [@ EXCEPT !.pc = "except"]
            [] OTHER -> [@ EXCEPT !.pc = "patch", !.original_get = requests_get]]
    /\ UNCHANGED <<config, requests_get, drive, hist>>

\* lines 78-83: requests.get = proxied_get
transcript_patch(r) ==
    /\ local[r].pc = "patch"
    /\ requests_get' = proxied_get(r, AttemptNo(local[r]), local[r].original_get)
    /\ local' = [local EXCEPT ![r] = [@ EXCEPT !.pc = "fetch", !.lang = 1]]
    /\ UNCHANGED <<config, drive, hist>>

\* lines 88-93 and 100-102: ytt_api.fetch for the current language
transcript_fetch(r, E) ==
    /\ local[r].pc = "fetch"
    /\ \E out \in E.fetch :
         /\ out.ok \/ E.max_fetch_fails < 0 \/ hist[r].fetch_fails < E.max_fetch_fails
         /\ local' = [local EXCEPT ![r] =
               IF out.ok THEN [@ EXCEPT !.pc = "restore_return", !.transcript = out.text]
               ELSE IF @.lang < Len(Langs) THEN [@ EXCEPT !.lang = @ + 1]
               ELSE [@ EXCEPT !.pc = "restore_raise"]]
         /\ hist' = [hist EXCEPT ![r] =
               [Did(@, "youtube") EXCEPT !.fetch_fails =
                   IF out.ok \/ E.max_fetch_fails < 0 THEN @ ELSE @ + 1]]
    /\ UNCHANGED <<config, requests_get, drive>>

\* history: a transcript call ends with requests.get bound to now
CallEnded(h, now) ==
    [h EXCEPT !.kept = IF now = h.get_before THEN "same" ELSE "changed",
              !.get_before = <<>>]

\* the request whose proxied_get a function is (0: the original requests.get)
OwnerOf(fn) == IF fn = OriginalGet THEN 0 ELSE Head(fn)[1]

\* lines 97, 106 and 115 left out: requests.get is never assigned back
RestoredNever(current, original_get) == current

\* what requests.get is bound to after a restore by a call that holds original_get
Restored(current, original_get) ==
    IF WEBSHARE_PROXY = "none" THEN current ELSE original_get

\* lines 95-99 and 612-615: restore and return; an empty transcript is skipped
transcript_restore_return(r) ==
    /\ local[r].pc = "restore_return"
    /\ requests_get' = Restored(requests_get, local[r].original_get)
    /\ local' = [local EXCEPT ![r] =
          IF @.transcript = <<>> THEN Continue(@)
          ELSE [@ EXCEPT !.pc = "summary", !.attempt = 0, !.original_get = Unbound]]
    /\ hist' = [hist EXCEPT ![r] =
          CallEnded(@, requests_get')]
    /\ UNCHANGED <<config, drive>>

\* lines 104-108: both languages failed: restore and raise
transcript_restore_raise(r) ==
    /\ local[r].pc = "restore_raise"
    /\ requests_get' = Restored(requests_get, local[r].original_get)
    /\ local' = [local EXCEPT ![r] = [@ EXCEPT !.pc = "except"]]
    /\ UNCHANGED <<config, drive, hist>>

\* lines 110-117 and 623-625: retry, or restore once more and raise to the
\* caller, which skips the video.  With original_get never assigned line 115
\* raises UnboundLocalError and leaves requests.get alone.
transcript_except(r) ==
    /\ local[r].pc = "except"
    /\ IF local[r].attempt = max_retries - 1
       THEN /\ requests_get' =
                  IF local[r].original_get = Unbound THEN requests_get
                  ELSE Restored(requests_get, local[r].original_get)
            /\ local' = [local EXCEPT ![r] = Continue(@)]
            /\ hist' = [hist EXCEPT ![r] =
                  [CallEnded(@, requests_get') EXCEPT !.failed = @ \cup {"transcript"}]]
       ELSE /\ local' = [local EXCEPT ![r] =
                  [@ EXCEPT !.pc = "attempt", !.attempt = @ + 1]]
            /\ UNCHANGED <<requests_get, hist>>
    /\ UNCHANGED <<config, drive>>

\* --------------------------------------------------------- create_ai_summary
\* lines 121-162: len of the summary returned for an LLM outcome
SummaryLen(out, transcript) ==
    IF out = "ok" THEN AiSummaryLen
    ELSE JoinLen(get_summary(transcript, SummarySentences))

\* lines 617-621
create_ai_summary(r, E) ==
    /\ local[r].pc = "summary"
    /\ \E out \in E.summary :
         /\ local' = [local EXCEPT ![r] =
               [Continue(@) EXCEPT
                   !.all_summaries = Append(@, SummaryLen(out, local[r].transcript)),
                   !.processed_count = @ + 1]]
         /\ hist' = [hist EXCEPT ![r] =
               [Did(@, "groq_summary") EXCEPT !.failed =
                   IF out = "ok" THEN @ ELSE @ \cup {"summary"}]]
    /\ UNCHANGED <<config, requests_get, drive>>

\* ----------------------------------------------------- scrape_news_headlines
\* a scrape that yields a stand-in headline when it fails
HeadlinesStandIn(out, source_name) == <<source_name>>

\* lines 165-185: the headlines of one source; any failure gives []
Headlines(out, source_name) == IF out = "ok" THEN <<source_name>> ELSE <<>>

\* lines 636-640: one pass of the loop over NEWS_SOURCES; the scrape calls
\* whatever requests.get is bound to at that moment
scrape_news_headlines(r, E) ==
    /\ local[r].pc = "scrape"
    /\ \E out \in E.scrape :
         /\ local' = [local EXCEPT ![r] =
               [@ EXCEPT !.all_headlines = @ \o Headlines(out, NEWS_SOURCES[local[r].src]),
                         !.src = @ + 1,
                         !.pc = IF local[r].src = Len(NEWS_SOURCES)
                                THEN "verify" ELSE "scrape"]]
         /\ hist' = [hist EXCEPT ![r] =
               [Did(@, "news") EXCEPT
                   !.scrape_owner = OwnerOf(requests_get),
                   !.scrape_failed = IF out = "ok" THEN @ ELSE @ \cup {local[r].src}]]
    /\ UNCHANGED <<config, requests_get, drive>>

\* ----------------------------------------------------- verify_news_with_groq
\* lines 188-220: the reply, or the placeholder when the call fails
VerificationOf(out) ==
    CASE out = "fail" -> VerUnavailable
      [] out = "scored" -> VerScored
      [] OTHER -> VerUnscored

\* lines 642-647
verify_news_with_groq(r, E) ==
    /\ local[r].pc = "verify"
    /\ \E out \in E.verify :
         /\ local' = [local EXCEPT ![r] =
               [@ EXCEPT !.verification = VerificationOf(out),
                         !.credibility = CredibilityOf(VerificationOf(out)),
                         !.pc = "scripts"]]
         /\ hist' = [hist EXCEPT ![r] =
               [Did(@, "groq_verify") EXCEPT !.failed =
                   IF out = "fail" THEN @ \cup {"verify"} ELSE @]]
    /\ UNCHANGED <<config, requests_get, drive>>

\* -------------------------------------------------- create_instagram_scripts
\* lines 223-409: the reply, or f"Error: {str(e)}" when the call fails
RawScripts(out) == IF out.ok THEN out.text ELSE ErrorText

\* line 651
create_instagram_scripts(r, E) ==
    /\ local[r].pc = "scripts"
    /\ \E out \in E.scripts :
         /\ local' = [local EXCEPT ![r] =
               [@ EXCEPT !.raw_scripts = RawScripts(out), !.pc = "parse"]]
         /\ hist' = [hist EXCEPT ![r] =
               [Did(@, "groq_scripts") EXCEPT !.failed =
                   IF out.ok THEN @ ELSE @ \cup {"scripts"}]]
    /\ UNCHANGED <<config, requests_get, drive>>

\* lines 652-658
parse(r) ==
    /\ local[r].pc = "parse"
    /\ local' = [local EXCEPT ![r] =
          [@ EXCEPT !.parsed = parse_scripts(local[r].raw_scripts, local[r].num_scripts),
                    !.pc = "up_auth"]]
    /\ UNCHANGED <<config, requests_get, drive, hist>>

\* ------------------------------------------------------------ upload_to_sheets
\* lines 509-510 and 684-689: any exception of the upload, wrapped, becomes
\* the 500 response of the request
UploadError(f) == Reply(f, 500, "Sheet upload error")

UploadFailed(h) == [Did(h, "sheets") EXCEPT !.failed = @ \cup {"upload"}]

\* lines 453-455: parse the credentials and authorize
upload_authorize(r, E) ==
    /\ local[r].pc = "up_auth"
    /\ \E fails \in E.api_fails :
         /\ local' = [local EXCEPT ![r] =
               IF fails THEN UploadError(@) ELSE [@ EXCEPT !.pc = "up_open"]]
         /\ hist' = [hist EXCEPT ![r] = IF fails THEN UploadFailed(@) ELSE Did(@, "sheets")]
    /\ UNCHANGED <<config, requests_get, drive>>

\* lines 457-460: open the spreadsheet; when that raises, create one
upload_open(r, E) ==
    /\ local[r].pc = "up_open"
    /\ \E open_fails \in E.api_fails, create_fails \in E.api_fails :
         IF drive # <<>> /\ ~open_fails
         THEN /\ local' = [local EXCEPT ![r] =
                    [@ EXCEPT !.spreadsheet = 1, !.pc = "up_ws"]]
              /\ UNCHANGED <<drive, hist>>
         ELSE IF create_fails
         THEN /\ local' = [local EXCEPT ![r] = UploadError(@)]
              /\ hist' = [hist EXCEPT ![r] = UploadFailed(@)]
              /\ UNCHANGED drive
         ELSE /\ drive' = Append(drive, [ws |-> FALSE, rows |-> <<>>])
              /\ local' = [local EXCEPT ![r] =
                    [@ EXCEPT !.spreadsheet = Len(drive) + 1, !.pc = "up_ws"]]
              /\ UNCHANGED hist
    /\ UNCHANGED <<config, requests_get>>

\* lines 462-465: the worksheet "Scripts"; when that raises, add it (adding a
\* worksheet whose title exists is an API error)
upload_worksheet(r, E) ==
    /\ local[r].pc = "up_ws"
    /\ LET sh == drive[local[r].spreadsheet]
       IN  \E get_fails \in E.api_fails, add_fails \in E.api_fails :
             IF sh.ws /\ ~get_fails
             THEN /\ local' = [local EXCEPT ![r] = [@ EXCEPT !.pc = "up_read"]]
                  /\ UNCHANGED <<drive, hist>>
             ELSE IF sh.ws \/ add_fails
             THEN /\ local' = [local EXCEPT ![r] = UploadError(@)]
                  /\ hist' = [hist EXCEPT ![r] = UploadFailed(@)]
                  /\ UNCHANGED drive
             ELSE /\ drive' = [drive EXCEPT ![local[r].spreadsheet] =
                        [ws |-> TRUE, rows |-> <<>>]]
                  /\ local' = [local EXCEPT ![r] = [@ EXCEPT !.pc = "up_header"]]
                  /\ UNCHANGED hist
    /\ UNCHANGED <<config, requests_get>>

\* worksheet.update(f'A{row}', values): the cells from that row on are replaced
WriteAt(rows, row, values) ==
    LET n == IF Len(rows) > row - 1 + Len(values) THEN Len(rows)
             ELSE row - 1 + Len(values)
    IN  [i \in 1..n |->
            IF i >= row /\ i < row + Len(values) THEN values[i - row + 1]
            ELSE rows[i]]

\* lines 466-477: worksheet.update('A1', [headers])
upload_header(r, E) ==
    /\ local[r].pc = "up_header"
    /\ \E fails \in E.api_fails :
         IF fails
         THEN /\ local' = [local EXCEPT ![r] = UploadError(@)]
              /\ hist' = [hist EXCEPT ![r] = UploadFailed(@)]
              /\ UNCHANGED drive
         ELSE /\ drive' = [drive EXCEPT ![local[r].spreadsheet].rows =
                        WriteAt(@, 1, <<HeaderRow>>)]
              /\ local' = [local EXCEPT ![r] = [@ EXCEPT !.pc = "up_format"]]
              /\ UNCHANGED hist
    /\ UNCHANGED <<config, requests_get>>

\* lines 478-482: worksheet.format('A1:I1', ...)
upload_format(r, E) ==
    /\ local[r].pc = "up_format"
    /\ \E fails \in E.api_fails :
         /\ local' = [local EXCEPT ![r] =
               IF fails THEN UploadError(@) ELSE [@ EXCEPT !.pc = "up_read"]]
         /\ hist' = [hist EXCEPT ![r] = IF fails THEN UploadFailed(@) ELSE @]
    /\ UNCHANGED <<config, requests_get, drive>>

\* line 485
NextRow(existing) == Len(existing) + 1

\* lines 484-503: read the rows, compute next_row; with no rows to write the
\* function returns the url
upload_read(r, E) ==
    /\ local[r].pc = "up_read"
    /\ \E fails \in E.api_fails :
         /\ local' = [local EXCEPT ![r] =
               IF fails THEN UploadError(@)
               ELSE [@ EXCEPT !.next_row = NextRow(drive[local[r].spreadsheet].rows),
                              !.pc = IF local[r].parsed = <<>> THEN "respond"
                                     ELSE "up_write"]]
         /\ hist' = [hist EXCEPT ![r] = IF fails THEN UploadFailed(@) ELSE @]
    /\ UNCHANGED <<config, requests_get, drive>>

\* lines 489-501: one row per script
RowsOf(r, scripts) == [i \in 1..Len(scripts) |-> ScriptRow(r, i)]

\* line 504: worksheet.update(f'A{next_row}', rows)
upload_write(r, E) ==
    /\ local[r].pc = "up_write"
    /\ \E fails \in E.api_fails :
         IF fails
         THEN /\ local' = [local EXCEPT ![r] = UploadError(@)]
              /\ hist' = [hist EXCEPT ![r] = UploadFailed(@)]
              /\ UNCHANGED drive
         ELSE /\ drive' = [drive EXCEPT ![local[r].spreadsheet].rows =
                        WriteAt(@, local[r].next_row, RowsOf(r, local[r].parsed))]
              /\ local' = [local EXCEPT ![r] = [@ EXCEPT !.pc = "up_resize"]]
              /\ hist' = [hist EXCEPT ![r].writes = @ + 1]
    /\ UNCHANGED <<config, requests_get>>

\* line 505: worksheet.columns_auto_resize(0, 9)
upload_resize(r, E) ==
    /\ local[r].pc = "up_resize"
    /\ \E fails \in E.api_fails :
         /\ local' = [local EXCEPT ![r] =
               IF fails THEN UploadError(@) ELSE [@ EXCEPT !.pc = "respond"]]
         /\ hist' = [hist EXCEPT ![r] = IF fails THEN UploadFailed(@) ELSE @]
    /\ UNCHANGED <<config, requests_get, drive>>

\* lines 507 and 660-682
respond(r) ==
    /\ local[r].pc = "respond"
    /\ local' = [local EXCEPT ![r] = Reply(@, 200, "success")]
    /\ UNCHANGED <<config, requests_get, drive, hist>>

\* ----------------------------------------------------------- specifications
Step(r, E) ==
    \/ generate_scripts(r, E)
    \/ next_video(r)
    \/ transcript_attempt(r)
    \/ transcript_patch(r)
    \/ transcript_fetch(r, E)
    \/ transcript_restore_return(r)
    \/ transcript_restore_raise(r)
    \/ transcript_except(r)
    \/ create_ai_summary(r, E)
    \/ scrape_news_headlines(r, E)
    \/ verify_news_with_groq(r, E)
    \/ create_instagram_scripts(r, E)
    \/ parse(r)
    \/ upload_authorize(r, E)
    \/ upload_open(r, E)
    \/ upload_worksheet(r, E)
    \/ upload_header(r, E)
    \/ upload_format(r, E)
    \/ upload_read(r, E)
    \/ upload_write(r, E)
    \/ upload_resize(r, E)
    \/ respond(r)

\* one request, any configuration, any answer of the external services
Next == Step(1, FullEnv)

Spec == Init /\ [][Next]_vars

\* two concurrent requests with a proxy configured; the services answer, and
\* only the transcript fetch may fail
ConcEnv ==
    [bodies |-> {[json |-> TRUE, urls |-> [type |-> "list", items |-> <<"ok">>],
                  has_num |-> TRUE, num |-> n] : n \in {MinScripts, MaxScripts}},
     fetch |-> {Fail, Ok(TextLong)},
     summary |-> {"ok"},
     scrape |-> {"ok"},
     verify |-> {"scored"},
     scripts |-> {Ok(ReplyTwo)},
     max_fetch_fails |-> MaxFetchFails,
     api_fails |-> {FALSE}]

InitConc ==
    /\ GROQ_API_KEY = TRUE
    /\ GOOGLE_CREDS_JSON = TRUE
    /\ WEBSHARE_PROXY = "ok"
    /\ requests_get = OriginalGet
    /\ drive = EmptySpreadsheet
    /\ local = [r \in Requests |-> IdleFrame]
    /\ hist = [r \in Requests |-> NoHistory]

NextConc == \E r \in Requests : Step(r, ConcEnv)

SpecConc == InitConc /\ [][NextConc]_vars

\* the frame and the history of a request that has reached line 652 (the
\* script-generation model has replied) after one video, every service
\* having answered
FrameAtParse(raw_scripts, num_scripts) ==
    [IdleFrame EXCEPT
        !.pc = "parse",
        !.data = [json |-> TRUE, urls |-> [type |-> "list", items |-> <<"ok">>],
                  has_num |-> TRUE, num |-> num_scripts],
        !.num_scripts = num_scripts, !.idx = 1,
        !.all_summaries = <<AiSummaryLen>>, !.processed_count = 1,
        !.all_headlines = NEWS_SOURCES, !.src = Len(NEWS_SOURCES) + 1,
        !.verification = VerScored, !.credibility = CredibilityOf(VerScored),
        !.raw_scripts = raw_scripts]

HistoryAtParse ==
    [NoHistory EXCEPT
        !.calls = {"youtube", "groq_summary", "news", "groq_verify", "groq_scripts"},
        !.kept = "same"]

\* what a reply of the script-generation model is made of
ReplyTokens ==
    {Marker(3), Marker(1), MarkerLower(3), TitleLine("t1"), Word("a"), Rule}

ParseTexts == SeqsUpTo(ReplyTokens, MaxTokens) \cup {ReplyTwo, ReplyBare, ReplyNone, ErrorText}

\* parse_scripts on every reply, for every num_scripts the handler lets through
InitParse ==
    /\ GROQ_API_KEY = TRUE
    /\ GOOGLE_CREDS_JSON = TRUE
    /\ WEBSHARE_PROXY = "none"
    /\ requests_get = OriginalGet
    /\ drive = ReadySpreadsheet
    /\ \E raw_text \in ParseTexts, num_scripts \in MinScripts..MaxScripts :
          local = [r \in Requests |->
                     IF r = 1 THEN FrameAtParse(raw_text, num_scripts) ELSE IdleFrame]
    /\ hist = [r \in Requests |-> IF r = 1 THEN HistoryAtParse ELSE NoHistory]

NextParse == parse(1)

SpecParse == InitParse /\ [][NextParse]_vars

\* more sample sentences: a long one without keyword, and one with one keyword
SentPlainLong == [id |-> "s4", len |-> 60, kw |-> 0]
SentKwOne == [id |-> "s5", len |-> 40, kw |-> 1]

\* the i-th of a run of different sentences of 35 characters without keyword
Filler(i) == [id |-> ToString(i), len |-> 35, kw |-> 0]

\* a transcript whose only sentence with keywords comes after SentenceWindow
\* sentences longer than 30 characters
TextBeyondWindow == [i \in 1..SentenceWindow |-> Filler(i)] \o <<SentKw>>

SummaryTexts ==
    SeqsUpTo({SentKw, SentPlain, SentShort, SentPlainLong, SentKwOne}, MaxSentences)
    \cup {TextBeyondWindow}

\* the frame and the history of a request whose fetch of line 91, for its
\* first video and without proxy, has just returned a transcript
FrameAfterFetch(transcript) ==
    [IdleFrame EXCEPT
        !.pc = "restore_return",
        !.data = [json |-> TRUE, urls |-> [type |-> "list", items |-> <<"ok">>],
                  has_num |-> TRUE, num |-> MinScripts],
        !.num_scripts = MinScripts, !.idx = 1, !.transcript = transcript]

HistoryAfterFetch == [NoHistory EXCEPT !.calls = {"youtube"}]

\* get_transcript_with_retry returns, and create_ai_summary and with it
\* get_summary run, on every transcript
InitSummary ==
    /\ GROQ_API_KEY = TRUE
    /\ GOOGLE_CREDS_JSON = TRUE
    /\ WEBSHARE_PROXY = "none"
    /\ requests_get = OriginalGet
    /\ drive = ReadySpreadsheet
    /\ \E transcript \in SummaryTexts :
          local = [r \in Requests |->
                     IF r = 1 THEN FrameAfterFetch(transcript) ELSE IdleFrame]
    /\ hist = [r \in Requests |-> IF r = 1 THEN HistoryAfterFetch ELSE NoHistory]

NextSummary ==
    \/ transcript_restore_return(1)
    \/ create_ai_summary(1, FullEnv)

SpecSummary == InitSummary /\ [][NextSummary]_vars

\* ------------------------------------------------------------------ claims
\* the positions of generate_scripts after its video loop
PostLoop ==
    {"scrape", "verify", "scripts", "parse", "up_auth", "up_open", "up_ws",
     "up_header", "up_format", "up_read", "up_write", "up_resize", "respond"}

\* the request r came with a num_scripts outside [1,5]
BadNumScripts(r) ==
    /\ local[r].pc # "idle"
    /\ local[r].data.json
    /\ local[r].data.has_num
    /\ (local[r].data.num < MinScripts \/ local[r].data.num > MaxScripts)

LoopEnded(r) ==
    \/ local[r].pc \in PostLoop
    \/ /\ local[r].pc = "done"
       /\ local[r].message \in
             {"No videos could be processed", "Sheet upload error", "success"}

\* C2: when the video loop ends with processed_count = 0 the request is
\* answered 400 'No videos could be processed' and no headline is scraped, no
\* verification, no script generation and no upload is invoked.
C2_NoVideoNoPipeline ==
    \A r \in Requests :
        (LoopEnded(r) /\ local[r].processed_count = 0) =>
            /\ local[r].pc = "done"
            /\ local[r].status = 400
            /\ local[r].message = "No videos could be processed"
            /\ hist[r].calls \cap {"news", "groq_verify", "groq_scripts", "sheets"} = {}
            /\ local[r].all_summaries = <<>>

\* C2 witness: every video of a request was tried and failed, and the request
\* was answered 400
C2_Witness ==
    \E r \in Requests :
        /\ local[r].pc = "done"
        /\ local[r].message = "No videos could be processed"
        /\ local[r].idx = MaxUrls
        /\ "youtube" \in hist[r].calls
        /\ "transcript" \in hist[r].failed

\* C3 as stated: a failure on one video is not fatal: every URL among the
\* first 5 is attempted, and a request with a processed video is not
\* rejected for its videos.
C3_VideoFailureNotFatal ==
    \A r \in Requests :
        (local[r].pc = "done" /\ local[r].num_scripts # 0) =>
            /\ local[r].idx = Len(Capped(local[r].data.urls.items))
            /\ local[r].processed_count > 0 =>
                  local[r].message \in {"success", "Sheet upload error"}

\* C4 as stated: requests.get is, after every call of
\* get_transcript_with_retry, the function it was before that call, whether
\* the call returned a transcript or raised.
C4_RequestsGetRestored ==
    \A r \in Requests : hist[r].kept # "changed"

\* the other request has begun its video loop
OtherStarted(r) == \E q \in Requests \ {r} : local[q].idx > 0

\* C5: a headline scrape executes a proxied_get only when another request runs
\* concurrently (a request on its own always scrapes with the original
\* requests.get); the interleaving of the claim is C5_Witness.
C5_ScrapePicksUpPatch ==
    \A r \in Requests :
        hist[r].scrape_owner # 0 =>
            /\ WEBSHARE_PROXY = "ok"
            /\ OtherStarted(r)

\* C5 witness: request r has scraped a news site through the proxied_get that
\* request q installed in its first attempt, while q is still fetching
C5_Witness ==
    \E r \in Requests : \E q \in Requests \ {r} :
        /\ hist[r].scrape_owner = q
        /\ local[r].pc \in {"scrape", "verify"}
        /\ local[q].pc = "fetch"
        /\ AttemptNo(local[q]) = 1
        /\ requests_get = proxied_get(q, 1, OriginalGet)

\* C6 as stated: the summary of every processed video (accepted, non-empty
\* transcript) is non-empty text.
C6_SummaryNeverEmpty ==
    \A r \in Requests :
        \A i \in 1..Len(local[r].all_summaries) : local[r].all_summaries[i] > 0

\* the headlines of the sources scraped so far whose scrape did not fail
RECURSIVE HeadlinesOfOk(_, _)
HeadlinesOfOk(n, failed) ==
    IF n = 0 THEN <<>>
    ELSE HeadlinesOfOk(n - 1, failed)
         \o (IF n \in failed THEN <<>> ELSE <<NEWS_SOURCES[n]>>)

\* the request r has had a failure of a headline scrape or of the verification
BestEffortFailed(r) ==
    hist[r].scrape_failed # {} \/ "verify" \in hist[r].failed

\* C7: a source whose scrape fails contributes no headline; a failed
\* verification call gives 'Verification unavailable' and credibility 'N/A';
\* and after such failures the request is not answered before script
\* generation and upload have been invoked.
C7_BestEffort ==
    \A r \in Requests :
        /\ local[r].pc \in (PostLoop \ {"scrape"}) \cup {"done"} =>
              local[r].all_headlines =
                  HeadlinesOfOk(local[r].src - 1, hist[r].scrape_failed)
        /\ "verify" \in hist[r].failed =>
              /\ local[r].verification = VerUnavailable
              /\ local[r].credibility = "N/A"
        /\ BestEffortFailed(r) =>
              /\ local[r].pc \in PostLoop \cup {"done"}
              /\ local[r].pc = "done" =>
                    /\ {"groq_scripts", "sheets"} \subseteq hist[r].calls
                    /\ local[r].message \in {"success", "Sheet upload error"}
                    /\ local[r].status = 200 <=> "upload" \notin hist[r].failed

\* C7 witness: all three scrapes and the verification failed, and the request
\* was answered 200
C7_Witness ==
    \E r \in Requests :
        /\ local[r].pc = "done"
        /\ local[r].status = 200
        /\ hist[r].scrape_failed = 1..Len(NEWS_SOURCES)
        /\ local[r].all_headlines = <<>>
        /\ "verify" \in hist[r].failed
        /\ local[r].credibility = "N/A"

\* the rows of request r in the worksheets
RowsIn(r) ==
    UNION {{<<d, i>> : i \in {j \in 1..Len(drive[d].rows) : drive[d].rows[j].req = r}} :
              d \in 1..Len(drive)}

\* C8 as stated: when the script-generation call fails the request responds
\* 200 with zero scripts, the upload being invoked and writing no rows.
C8_ScriptFailureIs200 ==
    \A r \in Requests :
        ("scripts" \in hist[r].failed /\ local[r].pc = "done") =>
            /\ local[r].status = 200
            /\ local[r].parsed = <<>>
            /\ "sheets" \in hist[r].calls
            /\ hist[r].writes = 0

\* C8 amended: when the script-generation call fails, create_instagram_scripts
\* returns the 'Error: ...' text, parse_scripts makes zero records of it, the
\* upload is invoked and writes no row, and the request responds 200 'success'
\* with zero scripts unless the upload itself fails, in which case it responds
\* 500 with the wrapped upload error.
C8_ScriptFailureUploadsNothing ==
    \A r \in Requests :
        "scripts" \in hist[r].failed =>
            /\ local[r].raw_scripts = ErrorText
            /\ local[r].pc # "parse" => local[r].parsed = <<>>
            /\ local[r].pc \notin {"up_write", "up_resize"}
            /\ hist[r].writes = 0
            /\ RowsIn(r) = {}
            /\ local[r].pc = "done" =>
                  /\ "sheets" \in hist[r].calls
                  /\ IF "upload" \in hist[r].failed
                     THEN local[r].status = 500
                          /\ local[r].message = "Sheet upload error"
                     ELSE local[r].status = 200 /\ local[r].message = "success"

\* C8 witness: the script generation failed and the request was answered 200
\* with no script
C8_Witness ==
    \E r \in Requests :
        /\ "scripts" \in hist[r].failed
        /\ local[r].pc = "done"
        /\ local[r].status = 200
        /\ local[r].parsed = <<>>
        /\ "sheets" \in hist[r].calls

\* C9 as stated: a failure in the upload is answered 500 with the wrapped
\* error, never 200, and the sheet holds all rows of a request or none.
C9_UploadAllOrNothing ==
    \A r \in Requests :
        /\ "upload" \in hist[r].failed =>
              /\ local[r].pc = "done"
              /\ local[r].status = 500
              /\ local[r].message = "Sheet upload error"
        /\ Cardinality(RowsIn(r)) \in {0, Len(local[r].parsed)}

\* C10 as stated: an upload writes after all rows present, so no written row
\* is overwritten: the worksheet holds the header and then, for every request
\* that wrote, its rows where it wrote them.
C10_RowsAppended ==
    \A r \in Requests :
        hist[r].writes > 0 =>
            LET rows == drive[local[r].spreadsheet].rows
            IN  /\ \A i \in 1..Len(local[r].parsed) :
                      /\ local[r].next_row + i - 1 <= Len(rows)
                      /\ rows[local[r].next_row + i - 1] = ScriptRow(r, i)
                /\ local[r].next_row > 1
                /\ (\A q \in Requests : local[q].pc # "up_header") =>
                      rows[1] = HeaderRow

\* the numbers of the 'SCRIPT <n>' markers of a text, in order of occurrence
MarkerNumbers(raw_text) ==
    LET marks == SelectSeq(raw_text, LAMBDA tok : tok.t = "script")
    IN  [i \in 1..Len(marks) |-> marks[i].n]

\* the position in a text of its k-th marker
RECURSIVE MarkerAt(_, _, _)
MarkerAt(raw_text, k, from) ==
    IF raw_text[from].t = "script"
    THEN (IF k = 1 THEN from ELSE MarkerAt(raw_text, k - 1, from + 1))
    ELSE MarkerAt(raw_text, k, from + 1)

\* the words between the k-th marker of a text and the next marker or the end
RECURSIVE WordsFrom(_, _)
WordsFrom(raw_text, from) ==
    IF from > Len(raw_text) \/ raw_text[from].t = "script" THEN <<>>
    ELSE (IF raw_text[from].t = "word" THEN <<raw_text[from].v>> ELSE <<>>)
         \o WordsFrom(raw_text, from + 1)

\* C11: parse_scripts returns one record per 'SCRIPT <n>' marker (any case),
\* in order of occurrence and with the marker's number as given, cut to the
\* first num_scripts records; a text with two well-formed blocks gives exactly
\* two records, and a text without marker gives the empty list.
C11_OneRecordPerMarker ==
    \A r \in Requests :
        local[r].pc = "up_auth" =>
            LET raw_text == local[r].raw_scripts
                num_scripts == local[r].num_scripts
                scripts == local[r].parsed
                numbers == MarkerNumbers(raw_text)
            IN  /\ Len(scripts) = Min(Len(numbers), num_scripts)
                /\ \A k \in 1..Len(scripts) :
                      /\ scripts[k].number = numbers[k]
                      /\ scripts[k].content =
                            WordsFrom(raw_text, MarkerAt(raw_text, k, 1) + 1)
                      /\ scripts[k].word_count = Len(scripts[k].content)
                /\ numbers = <<>> => scripts = <<>>
                /\ (raw_text = ReplyTwo /\ num_scripts >= 2) =>
                      /\ Len(scripts) = 2
                      /\ scripts[1].number = 1 /\ scripts[2].number = 2
                      /\ scripts[1].title.s = "t1" /\ scripts[2].title.s = "t2"
                      /\ scripts[1].theme = "th1" /\ scripts[2].theme = "th2"
                      /\ scripts[1].content = <<"a", "b">>
                      /\ scripts[2].content = <<"c">>

\* C11 witness: three markers with the numbers 3, 3, 1, one of them in lower
\* case, parsed with num_scripts = 2 into the records numbered 3 and 3
C11_Witness ==
    \E r \in Requests :
        /\ local[r].pc = "up_auth"
        /\ local[r].raw_scripts = <<Marker(3), MarkerLower(3), Marker(1)>>
        /\ local[r].num_scripts = 2
        /\ Len(local[r].parsed) = 2
        /\ local[r].parsed[1].number = 3
        /\ local[r].parsed[2].number = 3

\* the elements of a sequence
Range(s) == {s[i] : i \in 1..Len(s)}

\* a result of get_summary: at most max_sentences sentences, none twice, in
\* the order of (keyword score, length) descending, and the best of candidates
RankedTop(top, candidates, max_sentences) ==
    /\ Len(top) = Min(max_sentences, Cardinality(Range(candidates)))
    /\ Range(top) \subseteq Range(candidates)
    /\ \A i, j \in 1..Len(top) :
          i < j =>
              /\ top[i] # top[j]
              /\ ~KeyLess(top[i], top[j])
              /\ top[j].kw > 0 => top[i].kw > 0
    /\ \A s \in Range(candidates) \ Range(top) :
          \A i \in 1..Len(top) : ~KeyLess(top[i], s)

\* the transcript get_summary is about to be called on
SummaryInput(r) == local[r].pc = "summary"

\* C12 as stated: for any transcript, get_summary ranks the sentences longer
\* than 30 characters that contain a keyword before all keyword-free ones (by
\* score, then by length, descending) and returns at most max_sentences
\* sentences, none twice.
C12_KeywordSentencesFirst ==
    \A r \in Requests :
        SummaryInput(r) =>
            \A max_sentences \in 0..SummarySentences :
                RankedTop(get_summary(local[r].transcript, max_sentences),
                          Sentences(local[r].transcript), max_sentences)

\* C12 amended: the same, among the first 60 sentences longer than 30
\* characters of the transcript; the sentences after them are ignored, with
\* or without keyword.
C12_KeywordSentencesFirstInWindow ==
    \A r \in Requests :
        SummaryInput(r) =>
            \A max_sentences \in 0..SummarySentences :
                RankedTop(get_summary(local[r].transcript, max_sentences),
                          Take(Sentences(local[r].transcript), SentenceWindow),
                          max_sentences)

\* C12 witness: of a transcript that ends with its two keyword sentences, the
\* one with the higher score comes first, then the other, then the
\* keyword-free sentence
C12_Witness ==
    \E r \in Requests :
        /\ SummaryInput(r)
        /\ local[r].transcript = <<SentPlainLong, SentKwOne, SentKw>>
        /\ get_summary(local[r].transcript, SummarySentences)
              = <<SentKw, SentKwOne, SentPlainLong>>

\* the positions of a request inside get_transcript_with_retry
InTranscriptCall ==
    {"attempt", "patch", "fetch", "restore_return", "restore_raise", "except"}

\* C13 as stated: get_transcript_with_retry makes at most max_retries
\* attempts; each attempt tries 'hi' and then 'en', so an attempt fails only
\* after both fetches have failed; the first fetch that succeeds ends the
\* call, and the call raises only after the last attempt.
C13_AttemptsTryBothLanguages ==
    \A r \in Requests :
        /\ local[r].attempt \in 0..(max_retries - 1)
        /\ local[r].lang \in 1..Len(Langs)
        /\ local[r].pc \in {"restore_raise", "except"} =>
              /\ local[r].lang = Len(Langs)
              /\ "youtube" \in hist[r].calls
        /\ "transcript" \in hist[r].failed => "youtube" \in hist[r].calls

\* C14 as stated: whenever no call of get_transcript_with_retry is in
\* progress, requests.get is the original, unpatched function.
C14_NoPatchSurvives ==
    (\A r \in Requests : local[r].pc \notin InTranscriptCall) =>
        requests_get = OriginalGet

====
